---- MODULE Spec2Model ----
(***************************************************************************)
(* A model of imagenet/__init__.py: the batch downloader of ImageNet       *)
(* synset archives (get_wnids / get_wnid / download_wnid) and its URL      *)
(* builder (build_url / _encode_params / _encode).                         *)
(*                                                                         *)
(* Text is modelled as a sequence of one-character strings, a byte string  *)
(* as a sequence of small integers.                                        *)
(***************************************************************************)
EXTENDS Integers, Sequences, FiniteSets, TLC

VARIABLES
    manifest,   \* the lines of the manifest file (each without its "\n")
    retry,      \* self.retry
    disk,       \* wnid -> contents of <path>/<wnid>.tar, or NoFile
    disk0,      \* disk as it was when the current run started
    partial,    \* wnids whose file was left behind by a failed write
    pc,         \* position of the process
    cnt,        \* get_wnids: cnt, the number of readline() calls so far
    wnid,       \* get_wnid: wnid
    url,        \* get_wnid: url, while download_wnid runs
    count,      \* download_wnid: count
    content,    \* download_wnid / get_wnid: content
    sent,       \* the body the server sent in the last successful attempt
    events,     \* what the current download_wnid call did, in order
    prior,      \* an earlier download_wnid call of this run saw a failure
    st,         \* per manifest line: what became of it in this run
    exc,        \* the exception that ended the run, if any
    exitcode,   \* exit status of the process (Running while it runs)
    logs,       \* levels of the log records emitted in this run
    args,       \* build_url studied alone: its arguments
    ret         \* build_url studied alone: its result

vars == <<manifest, retry, disk, disk0, partial, pc, cnt, wnid, url, count,
          content, sent, events, prior, st, exc, exitcode, logs, args, ret>>

runvars == <<manifest, retry, disk, disk0, partial, pc, cnt, wnid, url, count,
             content, sent, events, prior, st, exc, exitcode, logs>>

-----------------------------------------------------------------------------
(* Bounds of the model.                                                    *)

MaxLines == 3        \* longest manifest
MaxRetry == 2        \* largest self.retry
MaxParams == 2       \* most entries of params_extra
MaxComponents == 2   \* most entries of components

-----------------------------------------------------------------------------
(* Text helpers.                                                           *)

\* s.find(any of cs, from): the least index >= from holding a character of
\* cs, 0 when there is none.
FindFrom(s, cs, from) ==
    LET I == {j \in from..Len(s) : s[j] \in cs}
    IN  IF I = {} THEN 0 ELSE CHOOSE j \in I : \A k \in I : j <= k

Find(s, cs) == FindFrom(s, cs, 1)

\* s.rfind(c): the greatest index holding c, 0 when there is none.
RFind(s, cs) ==
    LET I == {j \in 1..Len(s) : s[j] \in cs}
    IN  IF I = {} THEN 0 ELSE CHOOSE j \in I : \A k \in I : j >= k

Tail2(s, i) == SubSeq(s, i, Len(s))      \* s[i-1:] in Python's indexing

RECURSIVE Flatten(_)
Flatten(ss) == IF ss = <<>> THEN <<>> ELSE Head(ss) \o Flatten(Tail(ss))

\* sep.join(ss)
RECURSIVE Join(_, _)
Join(sep, ss) ==
    IF ss = <<>> THEN <<>>
    ELSE IF Len(ss) = 1 THEN Head(ss)
    ELSE Head(ss) \o sep \o Join(sep, Tail(ss))

UpperAlpha == <<"A","B","C","D","E","F","G","H","I","J","K","L","M",
                "N","O","P","Q","R","S","T","U","V","W","X","Y","Z">>
LowerAlpha == <<"a","b","c","d","e","f","g","h","i","j","k","l","m",
                "n","o","p","q","r","s","t","u","v","w","x","y","z">>
DigitChars == <<"0","1","2","3","4","5","6","7","8","9">>

Range(s) == {s[i] : i \in 1..Len(s)}

\* str.lower() on one character
LowerChar(c) ==
    IF c \in Range(UpperAlpha)
    THEN LowerAlpha[CHOOSE i \in 1..26 : UpperAlpha[i] = c]
    ELSE c

Lower(s) == [i \in 1..Len(s) |-> LowerChar(s[i])]

Whitespace == {" ", "\t", "\n", "\r"}

\* bytes.strip() / str.strip(): drop leading and trailing whitespace
Strip(s) ==
    LET I == {j \in 1..Len(s) : s[j] \notin Whitespace}
    IN  IF I = {} THEN <<>>
        ELSE SubSeq(s, CHOOSE j \in I : \A k \in I : j <= k,
                       CHOOSE j \in I : \A k \in I : j >= k)

-----------------------------------------------------------------------------
(* Python values that reach the URL builder: None, a str, an int.          *)

PyNone == [t |-> "none", s |-> <<>>, n |-> 0]
PyStr(s) == [t |-> "str", s |-> s, n |-> 0]
PyInt(n) == [t |-> "int", s |-> <<>>, n |-> n]

RECURSIVE Digits(_)
Digits(n) ==
    IF n < 10 THEN <<DigitChars[n + 1]>>
    ELSE Digits(n \div 10) \o <<DigitChars[(n % 10) + 1]>>

\* str(value)
PyToStr(v) ==
    CASE v.t = "str" -> v.s
      [] v.t = "int" -> Digits(v.n)
      [] v.t = "none" -> <<"N","o","n","e">>

\* the truth value of a component: None and "" are false
Truthy(v) == v.t # "none" /\ ~(v.t = "str" /\ v.s = <<>>) /\ ~(v.t = "int" /\ v.n = 0)

-----------------------------------------------------------------------------
(* urllib.parse as build_url uses it.                                      *)

scheme_chars == Range(UpperAlpha) \cup Range(LowerAlpha) \cup Range(DigitChars)
                    \cup {"+", "-", "."}

uses_params == {<<>>, <<"f","t","p">>, <<"h","t","t","p">>,
                <<"h","t","t","p","s">>}

uses_netloc == {<<>>, <<"f","t","p">>, <<"h","t","t","p">>,
                <<"h","t","t","p","s">>}

\* urllib.parse._splitparams(url): (url, params)
splitparams(u) ==
    LET sl == RFind(u, {"/"})
        i  == IF sl > 0 THEN FindFrom(u, {";"}, sl) ELSE Find(u, {";"})
    IN  IF i = 0 THEN <<u, <<>>>>
        ELSE <<SubSeq(u, 1, i - 1), Tail2(u, i + 1)>>

\* s.partition(c) without the separator: (before, after) the first c, or
\* (s, "") when s holds no c
Partition(s, c) ==
    LET i == Find(s, {c})
    IN  IF i = 0 THEN <<s, <<>>>>
        ELSE <<SubSeq(s, 1, i - 1), Tail2(s, i + 1)>>

\* urlsplit: the scheme, lowered, and the rest
split_scheme(u) ==
    LET i == Find(u, {":"})
    IN  IF i > 1 /\ \A j \in 1..(i - 1) : u[j] \in scheme_chars
        THEN <<Lower(SubSeq(u, 1, i - 1)), Tail2(u, i + 1)>>
        ELSE <<<<>>, u>>

\* urlsplit: the netloc after "//", up to the first of "/?#", and the rest
split_netloc(r) ==
    IF Len(r) >= 2 /\ r[1] = "/" /\ r[2] = "/"
    THEN LET d == FindFrom(r, {"/", "?", "#"}, 3)
         IN  IF d = 0 THEN <<SubSeq(r, 3, Len(r)), <<>>>>
             ELSE <<SubSeq(r, 3, d - 1), Tail2(r, d)>>
    ELSE <<<<>>, r>>

\* urlparse: the params of the last path segment
split_params(scheme, r) ==
    IF scheme \in uses_params /\ Find(r, {";"}) > 0
    THEN splitparams(r) ELSE <<r, <<>>>>

urlparse5(scheme, netloc, fragment, query, pp) ==
    [scheme |-> scheme, netloc |-> netloc, path |-> pp[1],
     params |-> pp[2], query |-> query, fragment |-> fragment]

urlparse4(scheme, netloc, fragment, pq) ==
    urlparse5(scheme, netloc, fragment, pq[2], split_params(scheme, pq[1]))

urlparse3(scheme, netloc, rf) ==
    urlparse4(scheme, netloc, rf[2], Partition(rf[1], "?"))

urlparse2(scheme, nr) == urlparse3(scheme, nr[1], Partition(nr[2], "#"))

urlparse1(sr) == urlparse2(sr[1], split_netloc(sr[2]))

\* urllib.parse.urlparse(url): (scheme, netloc, path, params, query, fragment)
urlparse(u) == urlparse1(split_scheme(u))

\* urllib.parse.urlunparse((scheme, netloc, path, params, query, fragment))
urlunparse(p) ==
    LET u0 == IF p.params # <<>> THEN p.path \o <<";">> \o p.params ELSE p.path
        u1 == IF p.netloc # <<>>
                 \/ (p.scheme # <<>> /\ p.scheme \in uses_netloc
                     /\ ~(Len(u0) >= 2 /\ u0[1] = "/" /\ u0[2] = "/"))
              THEN <<"/", "/">> \o p.netloc
                   \o (IF u0 # <<>> /\ u0[1] # "/" THEN <<"/">> \o u0 ELSE u0)
              ELSE u0
        u2 == IF p.scheme # <<>> THEN p.scheme \o <<":">> \o u1 ELSE u1
        u3 == IF p.query # <<>> THEN u2 \o <<"?">> \o p.query ELSE u2
    IN  IF p.fragment # <<>> THEN u3 \o <<"#">> \o p.fragment ELSE u3

always_safe == Range(UpperAlpha) \cup Range(LowerAlpha) \cup Range(DigitChars)
                   \cup {"_", ".", "-", "~"}

\* "%XX" for the reserved characters the model uses
PercentCode(c) ==
    CASE c = "#" -> <<"%", "2", "3">>
      [] c = "%" -> <<"%", "2", "5">>
      [] c = "&" -> <<"%", "2", "6">>
      [] c = "+" -> <<"%", "2", "B">>
      [] c = "/" -> <<"%", "2", "F">>
      [] c = ":" -> <<"%", "3", "A">>
      [] c = ";" -> <<"%", "3", "B">>
      [] c = "=" -> <<"%", "3", "D">>
      [] c = "?" -> <<"%", "3", "F">>

\* urllib.parse.quote_plus(s)
quote_plus(s) ==
    Flatten([i \in 1..Len(s) |->
                IF s[i] \in always_safe THEN <<s[i]>>
                ELSE IF s[i] = " " THEN <<"+">>
                ELSE PercentCode(s[i])])

\* urllib.parse.urlencode(dict(pairs)): pairs is the dict's items, in order,
\* each <<key, value bytes>>
urlencode(pairs) ==
    Join(<<"&">>, [i \in 1..Len(pairs) |->
                      quote_plus(pairs[i][1]) \o <<"=">> \o quote_plus(pairs[i][2])])

-----------------------------------------------------------------------------
(* An optional argument: None, or a value.                                 *)

Nothing == [some |-> FALSE, v |-> <<>>]
Some(x) == [some |-> TRUE, v |-> x]

-----------------------------------------------------------------------------
(* ImagenetDownloader: the URL builder.                                    *)

\* _encode(value), with self._input_encoding = None as main() leaves it:
\* str(value).encode("utf-8"); the model's characters are ASCII, one byte each
encode(value) == PyToStr(value)

\* a variant of encoded_items that forgets the "is not None" filter
RECURSIVE encoded_items_keep_none(_)
encoded_items_keep_none(items) ==
    IF items = <<>> THEN <<>>
    ELSE <<<<Head(items)[1], encode(Head(items)[2])>>>>
         \o encoded_items_keep_none(Tail(items))

\* the items of params whose value is not None, each value encoded
RECURSIVE encoded_items(_)
encoded_items(items) ==
    IF items = <<>> THEN <<>>
    ELSE (IF Head(items)[2] # PyNone
          THEN <<<<Head(items)[1], encode(Head(items)[2])>>>>
          ELSE <<>>) \o encoded_items(Tail(items))

\* _encode_params(params): params is None or the items of a dict, in order
encode_params(params) ==
    IF ~params.some THEN Nothing
    ELSE Some(urlencode(encoded_items(params.v)))

\* the text of the components that are kept
RECURSIVE kept_components(_)
kept_components(cs) ==
    IF cs = <<>> THEN <<>>
    ELSE (IF Truthy(Head(cs)) THEN <<Head(cs).s>> ELSE <<>>)
         \o kept_components(Tail(cs))

\* build_url: the path with the kept components appended
build_path(path, components) ==
    IF components.some /\ components.v # <<>>
    THEN (IF path = <<>> \/ path[Len(path)] # "/"
          THEN path \o <<"/">> ELSE path)
         \o Join(<<"/">>, kept_components(components.v))
    ELSE path

\* build_url: query += query_extra, or query = query_extra
append_query(query, query_extra) ==
    IF query # <<>> THEN query \o query_extra ELSE query_extra

\* build_url: the query with the encoded parameters appended
build_query(query, params_extra) ==
    IF params_extra.some /\ Len(params_extra.v) > 0
    THEN append_query(query, encode_params(params_extra).v)
    ELSE query

build_url1(p, components, params_extra) ==
    urlunparse([scheme |-> p.scheme, netloc |-> p.netloc,
                path |-> build_path(p.path, components),
                params |-> p.params,
                query |-> build_query(p.query, params_extra),
                fragment |-> p.fragment])

\* build_url(url, components, params_extra)
build_url(u, components, params_extra) ==
    build_url1(urlparse(u), components, params_extra)

-----------------------------------------------------------------------------
(* The inputs build_url is studied on.                                     *)

HTTP == <<"h","t","t","p">>
BaseHP == HTTP \o <<":","/","/","h","/","p">>              \* http://h/p

BaseUrls ==
    { BaseHP,                                               \* http://h/p
      BaseHP \o <<"?">>,                                    \* http://h/p?
      BaseHP \o <<"/">>,                                    \* http://h/p/
      BaseHP \o <<"?","a","=","1">>,                        \* http://h/p?a=1
      BaseHP \o <<"?","a","=","1","&">>,                    \* http://h/p?a=1&
      BaseHP \o <<"?","a","=","1","&","c">>,                \* http://h/p?a=1&c
      BaseHP \o <<"?","a","=","1","#","f">>,                \* http://h/p?a=1#f
      BaseHP \o <<"#","f">>,                                \* http://h/p#f
      BaseHP \o <<";","x">>,                                \* http://h/p;x
      <<"H","T","T","P",":","/","/","h">> }                 \* HTTP://h

ComponentValues == {PyNone, PyStr(<<>>), PyStr(<<"x">>)}

ParamKeys == {<<"a">>, <<"b">>, <<"c","b">>}
ParamValues == {PyNone, PyInt(12), PyStr(<<"x"," ","=">>)}

SeqsUpTo(S, n) == UNION {[1..k -> S] : k \in 0..n}

\* the items of a dict: no key twice
DictItems(n) ==
    {d \in SeqsUpTo(ParamKeys \X ParamValues, n) :
        \A i, j \in 1..Len(d) : i # j => d[i][1] # d[j][1]}

NoCall == [url |-> <<>>, components |-> Nothing, params_extra |-> Nothing]

-----------------------------------------------------------------------------
(* The downloader.                                                         *)

NoFile == <<-1>>                       \* no such file (no byte is negative)

Lines == {<<"a">>, <<"b">>, <<" ","a">>, <<>>}     \* manifest lines
WNIDs == {<<"a">>, <<"b">>}
Bodies == {<<1>>, <<1, 2>>}            \* response bodies the server may send

\* the configuration: self._synset_original_url, the credentials of
\* imagenet.conf.apikeys, and the defaults of get_wnids
synset_original_url ==      \* http://www.image-net.org/download/synset
    HTTP \o <<":","/","/","w","w","w",".","i","m","a","g","e","-","n","e","t",
              ".","o","r","g","/","d","o","w","n","l","o","a","d","/",
              "s","y","n","s","e","t">>
imagenet_username == <<"u">>
imagenet_accesskey == <<"k">>
release == <<"l","a","t","e","s","t">>
src == <<"s","t","a","n","f","o","r","d">>

\* the exceptions urlopen() and read() raise, by the class the handlers see
ProtocolErrors == {"HTTPError", "HTTPException", "CertificateError"}
TransportErrors == {"URLError", "timeout", "socket.error", "IOError"}

\* a variant of isfile that never finds the file
isfile_never(w) == FALSE

\* os.path.isfile(os.path.join(self.path, wnid + ".tar"))
isfile(w) == disk[w] # NoFile

\* f.readline() after cnt earlier calls: the next line with its "\n", or
\* b"" at the end of the file
readline == IF cnt < Len(manifest) THEN manifest[cnt + 1] \o <<"\n">> ELSE <<>>

\* get_wnid: params
wnid_params(w) ==
    << <<<<"w","n","i","d">>, PyStr(w)>>,
       <<<<"u","s","e","r","n","a","m","e">>, PyStr(imagenet_username)>>,
       <<<<"a","c","c","e","s","s","k","e","y">>, PyStr(imagenet_accesskey)>>,
       <<<<"r","e","l","e","a","s","e">>, PyStr(release)>>,
       <<<<"s","r","c">>, PyStr(src)>> >>

\* get_wnid: url
wnid_url(w) ==
    build_url(synset_original_url \o <<"?">>, Nothing, Some(wnid_params(w)))

\* the URL of every identifier a manifest can name
wnid_urls == [w \in WNIDs |-> wnid_url(w)]

Terminated == pc \in {"done", "aborted"}

\* main() calls get_wnids(): the output directory exists, the manifest opens
StartRun ==
    /\ pc = "idle" \/ Terminated
    /\ pc' = "read"
    /\ cnt' = 0
    /\ wnid' = <<>>
    /\ url' = <<>>
    /\ count' = 0
    /\ content' = <<>>
    /\ sent' = <<>>
    /\ events' = <<>>
    /\ st' = [i \in 1..Len(manifest) |-> "PENDING"]
    /\ exc' = "none"
    /\ exitcode' = "running"
    /\ logs' = {"INFO"}
    /\ disk0' = disk
    /\ prior' = FALSE
    /\ UNCHANGED <<manifest, retry, disk, partial, args, ret>>

\* a variant of ReadEOF without the break: the loop goes on reading b""
ReadEOF_no_break ==
    /\ pc = "read"
    /\ readline = <<>>
    /\ cnt' = Len(manifest) + 1
    /\ UNCHANGED <<manifest, retry, prior, disk0, disk, partial, pc, wnid,
                   url, count, content, sent, events, st, exc, exitcode,
                   logs, args, ret>>

\* get_wnids: readline() returned b"": the loop ends, main() returns
ReadEOF ==
    /\ pc = "read"
    /\ readline = <<>>
    /\ cnt' = cnt + 1
    /\ pc' = "done"
    /\ exitcode' = "0"
    /\ UNCHANGED <<manifest, retry, prior, disk0, disk, partial, wnid, url,
                   count, content, sent, events, st, exc, logs, args, ret>>

\* a variant of ReadBlank that takes a blank line for the end of the file
ReadBlank_breaks ==
    /\ pc = "read"
    /\ readline # <<>>
    /\ Strip(readline) = <<>>
    /\ cnt' = cnt + 1
    /\ st' = [st EXCEPT ![cnt + 1] = "BLANK"]
    /\ pc' = "done"
    /\ exitcode' = "0"
    /\ UNCHANGED <<manifest, retry, prior, disk0, disk, partial, wnid, url,
                   count, content, sent, events, exc, logs, args, ret>>

\* get_wnids: a line of whitespace only
ReadBlank ==
    /\ pc = "read"
    /\ readline # <<>>
    /\ Strip(readline) = <<>>
    /\ cnt' = cnt + 1
    /\ st' = [st EXCEPT ![cnt + 1] = "BLANK"]
    /\ UNCHANGED <<manifest, retry, prior, disk0, disk, partial, pc, wnid,
                   url, count, content, sent, events, exc, exitcode, logs,
                   args, ret>>

\* a variant of GetWnidSkip that downloads although the file is there
GetWnidSkip_refetch ==
    /\ pc = "read"
    /\ Strip(readline) # <<>>
    /\ isfile(Strip(readline))
    /\ cnt' = cnt + 1
    /\ wnid' = Strip(readline)
    /\ url' = wnid_urls[Strip(readline)]
    /\ count' = 0
    /\ events' = <<>>
    /\ st' = [st EXCEPT ![cnt + 1] = "FETCHING"]
    /\ logs' = logs \cup {"INFO"}
    /\ pc' = "fetch"
    /\ prior' = (prior \/ count > 0)
    /\ UNCHANGED <<manifest, retry, disk0, disk, partial, content, sent, exc,
                   exitcode, args, ret>>

\* get_wnids reads an identifier and get_wnid finds its file: skip
GetWnidSkip ==
    /\ pc = "read"
    /\ Strip(readline) # <<>>
    /\ isfile(Strip(readline))
    /\ cnt' = cnt + 1
    /\ wnid' = Strip(readline)
    /\ st' = [st EXCEPT ![cnt + 1] = "SKIPPED"]
    /\ logs' = logs \cup {"INFO"}
    /\ UNCHANGED <<manifest, retry, prior, disk0, disk, partial, pc, url,
                   count, content, sent, events, exc, exitcode, args, ret>>

\* a variant of GetWnidFetch that opens the output file before it fetches
GetWnidFetch_opens_first ==
    /\ pc = "read"
    /\ Strip(readline) # <<>>
    /\ ~isfile(Strip(readline))
    /\ cnt' = cnt + 1
    /\ wnid' = Strip(readline)
    /\ url' = wnid_urls[Strip(readline)]
    /\ count' = 0
    /\ events' = <<>>
    /\ st' = [st EXCEPT ![cnt + 1] = "FETCHING"]
    /\ logs' = logs \cup {"INFO"}
    /\ pc' = "fetch"
    /\ prior' = (prior \/ count > 0)
    /\ disk' = [disk EXCEPT ![Strip(readline)] = <<>>]
    /\ UNCHANGED <<manifest, retry, disk0, partial, content, sent, exc,
                   exitcode, args, ret>>

\* a variant of GetWnidFetch whose failure counter belongs to the run: the
\* call goes on counting where the last one stopped
GetWnidFetch_keeps_count ==
    /\ pc = "read"
    /\ Strip(readline) # <<>>
    /\ ~isfile(Strip(readline))
    /\ cnt' = cnt + 1
    /\ wnid' = Strip(readline)
    /\ url' = wnid_urls[Strip(readline)]
    /\ events' = <<>>
    /\ st' = [st EXCEPT ![cnt + 1] = "FETCHING"]
    /\ logs' = logs \cup {"INFO"}
    /\ pc' = "fetch"
    /\ prior' = (prior \/ count > 0)
    /\ UNCHANGED <<manifest, retry, disk0, disk, partial, count, content,
                   sent, exc, exitcode, args, ret>>

\* get_wnids reads an identifier and get_wnid finds no file: build the URL
\* and enter download_wnid
GetWnidFetch ==
    /\ pc = "read"
    /\ Strip(readline) # <<>>
    /\ ~isfile(Strip(readline))
    /\ cnt' = cnt + 1
    /\ wnid' = Strip(readline)
    /\ url' = wnid_urls[Strip(readline)]
    /\ count' = 0
    /\ events' = <<>>
    /\ st' = [st EXCEPT ![cnt + 1] = "FETCHING"]
    /\ logs' = logs \cup {"INFO"}
    /\ pc' = "fetch"
    /\ prior' = (prior \/ count > 0)
    /\ UNCHANGED <<manifest, retry, disk0, disk, partial, content, sent, exc,
                   exitcode, args, ret>>

\* a variant of Propagate in which get_wnids catches the exception and goes
\* on with the next line
Propagate_swallowed(e, status) ==
    /\ pc' = "read"
    /\ url' = <<>>
    /\ st' = [st EXCEPT ![cnt] = status]
    /\ UNCHANGED <<exc, exitcode>>

\* an exception nothing catches: it leaves get_wnid, get_wnids and main()
Propagate(e, status) ==
    /\ pc' = "aborted"
    /\ exc' = e
    /\ exitcode' = "1"
    /\ url' = <<>>
    /\ st' = [st EXCEPT ![cnt] = status]

\* a variant of UrlopenOK in which get_wnids goes on to the next line while
\* the file of this one is still to be written
UrlopenOK_detached(body) ==
    /\ pc = "fetch"
    /\ content' = body
    /\ sent' = body
    /\ events' = Append(events, "ok")
    /\ pc' = "read"
    /\ UNCHANGED <<manifest, retry, prior, disk0, disk, partial, cnt, wnid,
                   url, count, st, exc, exitcode, logs, args, ret>>

\* a variant of UrlopenOK that returns the first byte of the body only
UrlopenOK_first_byte(body) ==
    /\ pc = "fetch"
    /\ content' = SubSeq(body, 1, 1)
    /\ sent' = body
    /\ events' = Append(events, "ok")
    /\ pc' = "write"
    /\ UNCHANGED <<manifest, retry, prior, disk0, disk, partial, cnt, wnid,
                   url, count, st, exc, exitcode, logs, args, ret>>

\* download_wnid: urlopen() and read() succeed
UrlopenOK(body) ==
    /\ pc = "fetch"
    /\ content' = body
    /\ sent' = body
    /\ events' = Append(events, "ok")
    /\ pc' = "write"
    /\ UNCHANGED <<manifest, retry, prior, disk0, disk, partial, cnt, wnid,
                   url, count, st, exc, exitcode, logs, args, ret>>

\* a variant of ExceptProtocol that sleeps before it retries
ExceptProtocol_sleeps(e) ==
    /\ pc = "fetch"
    /\ e \in ProtocolErrors
    /\ count' = count + 1
    /\ IF count + 1 > retry
       THEN /\ events' = Append(events, "protocol")
            /\ Propagate("DownloadError", "FAILED")
       ELSE /\ events' = events \o <<"protocol", "sleep">>
            /\ UNCHANGED <<pc, exc, exitcode, st, url>>
    /\ UNCHANGED <<manifest, retry, prior, disk0, disk, partial, cnt, wnid,
                   content, sent, logs, args, ret>>

\* a variant of ExceptProtocol with a budget of its own: it tests the number
\* of protocol failures, not count
ExceptProtocol_own_budget(e) ==
    /\ pc = "fetch"
    /\ e \in ProtocolErrors
    /\ count' = count + 1
    /\ events' = Append(events, "protocol")
    /\ IF Len(SelectSeq(events, LAMBDA x : x = "protocol")) + 1 > retry
       THEN Propagate("DownloadError", "FAILED")
       ELSE UNCHANGED <<pc, exc, exitcode, st, url>>
    /\ UNCHANGED <<manifest, retry, prior, disk0, disk, partial, cnt, wnid,
                   content, sent, logs, args, ret>>

\* download_wnid: the first except clause
ExceptProtocol(e) ==
    /\ pc = "fetch"
    /\ e \in ProtocolErrors
    /\ count' = count + 1
    /\ events' = Append(events, "protocol")
    /\ IF count + 1 > retry
       THEN Propagate("DownloadError", "FAILED")
       ELSE UNCHANGED <<pc, exc, exitcode, st, url>>
    /\ UNCHANGED <<manifest, retry, prior, disk0, disk, partial, cnt, wnid,
                   content, sent, logs, args, ret>>

\* a variant of ExceptTransport that tests count >= self.retry
ExceptTransport_off_by_one(e) ==
    /\ pc = "fetch"
    /\ e \in TransportErrors
    /\ count' = count + 1
    /\ IF count + 1 >= retry
       THEN /\ events' = Append(events, "transport")
            /\ Propagate("DownloadError", "FAILED")
       ELSE /\ events' = events \o <<"transport", "sleep">>
            /\ UNCHANGED <<pc, exc, exitcode, st, url>>
    /\ UNCHANGED <<manifest, retry, prior, disk0, disk, partial, cnt, wnid,
                   content, sent, logs, args, ret>>

\* a variant of ExceptTransport that sleeps before it tests the budget
ExceptTransport_sleeps_first(e) ==
    /\ pc = "fetch"
    /\ e \in TransportErrors
    /\ count' = count + 1
    /\ events' = events \o <<"transport", "sleep">>
    /\ IF count + 1 > retry
       THEN Propagate("DownloadError", "FAILED")
       ELSE UNCHANGED <<pc, exc, exitcode, st, url>>
    /\ UNCHANGED <<manifest, retry, prior, disk0, disk, partial, cnt, wnid,
                   content, sent, logs, args, ret>>

\* download_wnid: the second except clause
ExceptTransport(e) ==
    /\ pc = "fetch"
    /\ e \in TransportErrors
    /\ count' = count + 1
    /\ IF count + 1 > retry
       THEN /\ events' = Append(events, "transport")
            /\ Propagate("DownloadError", "FAILED")
       ELSE /\ events' = events \o <<"transport", "sleep">>
            /\ UNCHANGED <<pc, exc, exitcode, st, url>>
    /\ UNCHANGED <<manifest, retry, prior, disk0, disk, partial, cnt, wnid,
                   content, sent, logs, args, ret>>

\* a variant of WriteFile that loses the first byte
WriteFile_drops_byte ==
    /\ pc = "write"
    /\ disk' = [disk EXCEPT ![wnid] = Tail(content)]
    /\ st' = [st EXCEPT ![cnt] = "SAVED"]
    /\ pc' = "read"
    /\ url' = <<>>
    /\ UNCHANGED <<manifest, retry, prior, disk0, partial, cnt, wnid, count,
                   content, sent, events, exc, exitcode, logs, args, ret>>

\* get_wnid: open(filename, "wb") and f.write(content) succeed
WriteFile ==
    /\ pc = "write"
    /\ disk' = [disk EXCEPT ![wnid] = content]
    /\ st' = [st EXCEPT ![cnt] = "SAVED"]
    /\ pc' = "read"
    /\ url' = <<>>
    /\ UNCHANGED <<manifest, retry, prior, disk0, partial, cnt, wnid, count,
                   content, sent, events, exc, exitcode, logs, args, ret>>

\* get_wnid: open(filename, "wb") creates the file and f.write(content)
\* fails (or the process is stopped) after k of its bytes
WriteFails ==
    /\ pc = "write"
    /\ \E k \in 0..(Len(content) - 1) :
          disk' = [disk EXCEPT ![wnid] = SubSeq(content, 1, k)]
    /\ partial' = partial \cup {wnid}
    /\ Propagate("OSError", "TRUNCATED")
    /\ UNCHANGED <<manifest, retry, prior, disk0, cnt, wnid, count, content,
                   sent, events, logs, args, ret>>

Init ==
    /\ manifest \in SeqsUpTo(Lines, MaxLines)
    /\ retry \in 0..MaxRetry
    /\ disk \in [WNIDs -> {NoFile} \cup Bodies]
    /\ disk0 = disk
    /\ partial = {}
    /\ pc = "idle"
    /\ cnt = 0
    /\ wnid = <<>>
    /\ url = <<>>
    /\ count = 0
    /\ content = <<>>
    /\ sent = <<>>
    /\ events = <<>>
    /\ prior = FALSE
    /\ st = [i \in 1..Len(manifest) |-> "PENDING"]
    /\ exc = "none"
    /\ exitcode = "running"
    /\ logs = {}
    /\ args = NoCall
    /\ ret = Nothing

Next ==
    \/ StartRun
    \/ ReadEOF
    \/ ReadBlank
    \/ GetWnidSkip
    \/ GetWnidFetch
    \/ \E body \in Bodies : UrlopenOK(body)
    \/ \E e \in ProtocolErrors : ExceptProtocol(e)
    \/ \E e \in TransportErrors : ExceptTransport(e)
    \/ WriteFile
    \/ WriteFails

Spec == Init /\ [][Next]_vars

\* one step of a run under way: everything but the start of a run
Step ==
    \/ ReadEOF
    \/ ReadBlank
    \/ GetWnidSkip
    \/ GetWnidFetch
    \/ \E body \in Bodies : UrlopenOK(body)
    \/ \E e \in ProtocolErrors : ExceptProtocol(e)
    \/ \E e \in TransportErrors : ExceptTransport(e)
    \/ WriteFile
    \/ WriteFails

\* a single run of main(): it starts once; the interpreter keeps executing,
\* and urlopen(), read(), sleep() and write() each return or raise
NextOnce == (pc = "idle" /\ StartRun) \/ Step

FairSpec == Init /\ [][NextOnce]_vars /\ WF_vars(NextOnce)

-----------------------------------------------------------------------------
(* build_url on its own: the arguments are drawn, then the call is made.   *)

InitUrl ==
    /\ manifest = <<>>
    /\ retry = 0
    /\ disk = [w \in WNIDs |-> NoFile]
    /\ disk0 = disk
    /\ partial = {}
    /\ pc = "idle"
    /\ cnt = 0
    /\ wnid = <<>>
    /\ url = <<>>
    /\ count = 0
    /\ content = <<>>
    /\ sent = <<>>
    /\ events = <<>>
    /\ prior = FALSE
    /\ st = <<>>
    /\ exc = "none"
    /\ exitcode = "running"
    /\ logs = {}
    /\ args \in [url : BaseUrls,
                 components : {Nothing} \cup
                     {Some(c) : c \in SeqsUpTo(ComponentValues, MaxComponents)},
                 params_extra : {Nothing} \cup
                     {Some(d) : d \in DictItems(MaxParams)}]
    /\ ret = Nothing

BuildUrl ==
    /\ ~ret.some
    /\ ret' = Some(build_url(args.url, args.components, args.params_extra))
    /\ UNCHANGED <<args, runvars>>

NextUrl == BuildUrl

SpecUrl == InitUrl /\ [][NextUrl]_vars

-----------------------------------------------------------------------------
(* The batch (Spec).                                                       *)

\* the identifier on manifest line i
WnidAt(i) == Strip(manifest[i])

\* k repetitions of e
RECURSIVE Repeat(_, _)
Repeat(e, k) == IF k = 0 THEN <<>> ELSE e \o Repeat(e, k - 1)

\* a download_wnid call is under way or has just raised DownloadError
Downloading == pc = "fetch"
Raised == pc = "aborted" /\ exc = "DownloadError"

OnlyOf(kinds) == events # <<>> /\ \A i \in 1..Len(events) : events[i] \in kinds

\* C1: when get_wnid is entered for an identifier whose output file exists,
\* the step goes straight back to reading the manifest: download_wnid is not
\* entered (no urlopen for it), nothing is added to the record of network
\* events, and the disk, that file included, is left as it was.
C1_ExistingFileSkipped ==
    [][ (pc = "read" /\ Strip(readline) # <<>>
            /\ disk[Strip(readline)] # NoFile)
        => (/\ pc' = "read"
            /\ disk' = disk
            /\ events' = events
            /\ st'[cnt'] = "SKIPPED") ]_vars

C1_Witness ==
    /\ pc = "read" /\ cnt \in 1..Len(manifest)
    /\ st[cnt] = "SKIPPED"
    /\ disk[wnid] \in Bodies /\ disk[wnid] = disk0[wnid]

\* C2: with self.retry = N and every attempt ending in a transport failure,
\* download_wnid raises DownloadError after exactly N + 1 attempts, having
\* slept exactly N times, once between each two consecutive attempts; while
\* fewer than N + 1 attempts have failed it is still trying.
C2_TransportRetries ==
    OnlyOf({"transport", "sleep"}) =>
        /\ Raised =>
              events = Repeat(<<"transport", "sleep">>, retry) \o <<"transport">>
        /\ Downloading =>
              \E k \in 1..retry : events = Repeat(<<"transport", "sleep">>, k)
        /\ Raised \/ Downloading

C2_Witness ==
    /\ Raised /\ retry >= 2
    /\ events = <<"transport", "sleep", "transport", "sleep", "transport">>

\* C3: with self.retry = N and every attempt ending in a protocol failure,
\* download_wnid raises DownloadError after exactly N + 1 attempts and never
\* sleeps; while fewer than N + 1 attempts have failed it is still trying.
C3_ProtocolRetries ==
    OnlyOf({"protocol", "sleep"}) =>
        /\ Raised => events = Repeat(<<"protocol">>, retry + 1)
        /\ Downloading => \E k \in 1..retry : events = Repeat(<<"protocol">>, k)
        /\ Raised \/ Downloading

C3_Witness ==
    /\ Raised /\ retry >= 2
    /\ events = <<"protocol", "protocol", "protocol">>

\* C4: when the fetch for the identifier on line k ends in DownloadError, the
\* run is over with that exception propagated (exit status 1); every earlier
\* line was blank, skipped or saved, and each earlier identifier has its
\* output file; no later line has been touched, and the file of an identifier
\* that occurs only later is as it was when the run started.
C4_FailureHaltsBatch ==
    \A k \in 1..Len(manifest) :
        st[k] = "FAILED" =>
            /\ k = cnt /\ Raised /\ exitcode = "1"
            /\ \A j \in 1..(k - 1) :
                  /\ st[j] \in {"BLANK", "SKIPPED", "SAVED"}
                  /\ st[j] # "BLANK" => disk[WnidAt(j)] # NoFile
            /\ \A j \in (k + 1)..Len(manifest) :
                  /\ st[j] = "PENDING"
                  /\ (WnidAt(j) # <<>>
                        /\ \A i \in 1..k : WnidAt(i) # WnidAt(j))
                     => disk[WnidAt(j)] = disk0[WnidAt(j)]

C4_Witness ==
    /\ Len(manifest) = 3 /\ cnt = 2
    /\ st = <<"SAVED", "FAILED", "PENDING">>
    /\ Raised
    /\ WnidAt(3) # <<>> /\ WnidAt(3) # WnidAt(1)
    /\ disk[WnidAt(1)] \in Bodies /\ disk[WnidAt(3)] = NoFile

\* C5: once get_wnid has written the file of an identifier it fetched, the
\* file holds exactly the bytes the server sent in the successful attempt.
C5_FileHoldsBody ==
    (cnt \in 1..Len(manifest) /\ st[cnt] = "SAVED") =>
        /\ wnid = WnidAt(cnt)
        /\ disk[wnid] = sent
        /\ sent \in Bodies

C5_Witness ==
    /\ cnt \in 1..Len(manifest) /\ st[cnt] = "SAVED"
    /\ events = <<"transport", "sleep", "protocol", "ok">>
    /\ disk[wnid] = <<1, 2>>

\* C6: an output file comes into being only in get_wnid's write, for the
\* identifier whose fetch has just succeeded; a file that exists is never
\* changed or removed, so no file is created twice.
C6_FileCreatedOnceNeverChanged ==
    [][ \A w \in WNIDs :
          /\ disk[w] # NoFile => disk'[w] = disk[w]
          /\ (disk[w] = NoFile /\ disk'[w] # NoFile) =>
                /\ pc = "write" /\ w = wnid /\ w = WnidAt(cnt)
                /\ events[Len(events)] = "ok" ]_vars

C6_Witness ==
    \E i, j \in 1..Len(manifest) :
        /\ i < j /\ WnidAt(i) = WnidAt(j)
        /\ st[i] = "SAVED" /\ st[j] = "SKIPPED"
        /\ disk[WnidAt(i)] = sent

\* C7: a file left behind by a write that failed or was interrupted is not
\* taken for a finished download: a later run does not skip its identifier.
C7_PartialFileNotSkipped ==
    \A i \in 1..Len(manifest) :
        st[i] = "SKIPPED" => WnidAt(i) \notin partial

\* C11: when a fetch has exhausted its retry budget, a record at error level
\* has been logged and the run has ended with a non-zero exit status.
C11_FailureLoggedAtError ==
    Raised => ("ERROR" \in logs /\ exitcode = "1")

\* a line get_wnids is done with, and went past
Finished(i) == st[i] \in {"BLANK", "SKIPPED", "SAVED"}

\* C12: the lines of the manifest are taken one at a time in file order: the
\* lines touched so far are exactly the first cnt; at most the last of them
\* is unfinished (being fetched, or having ended the run), and it is the one
\* get_wnid works on; every line before a touched line is blank, or its
\* identifier was skipped or saved and has its output file.
C12_StrictlySequential ==
    /\ cnt <= Len(manifest) + 1
    /\ \A j \in 1..Len(manifest) :
          /\ st[j] # "PENDING" <=> j <= cnt
          /\ st[j] = "FETCHING" <=> (j = cnt /\ pc \in {"fetch", "write"})
          /\ (st[j] # "PENDING" /\ ~Finished(j)) =>
                (j = cnt /\ wnid = WnidAt(j) /\ pc # "read")
          /\ st[j] # "PENDING" =>
                \A i \in 1..(j - 1) :
                    /\ Finished(i)
                    /\ st[i] # "BLANK" => disk[WnidAt(i)] # NoFile

C12_Witness ==
    /\ st = <<"SAVED", "SKIPPED", "FETCHING">>
    /\ pc = "fetch" /\ count > 0
    /\ WnidAt(1) = WnidAt(2) /\ WnidAt(3) # WnidAt(2)

\* the ways a run ends: the manifest is exhausted and main() returns; or an
\* exception of get_wnid's write leaves main()
Complete ==
    /\ pc = "done" /\ exitcode = "0" /\ exc = "none"
    /\ cnt = Len(manifest) + 1
    /\ \A i \in 1..Len(manifest) :
          /\ Finished(i)
          /\ st[i] = "BLANK" <=> WnidAt(i) = <<>>
WriteFailed ==
    /\ pc = "aborted" /\ exc = "OSError" /\ exitcode = "1"
    /\ st[cnt] = "TRUNCATED"

\* C13, with two outcomes only: a run that has ended was either aborted by
\* a fetch failure, or it exhausted the manifest with every identifier
\* skipped or saved and exit status 0.
C13_EndsFailedOrComplete ==
    Terminated => (Raised \/ Complete)

\* C13: with each urlopen(), read(), sleep() and write() returning or
\* raising, a run that has started terminates; it ends in one of three ways:
\* a fetch failure aborts the batch (exit status 1), a failed write of an
\* output file aborts the batch (exit status 1), or the manifest is exhausted
\* with every non-blank line's identifier skipped or saved and exit status 0.
C13_Terminates ==
    /\ (pc \in {"read", "fetch", "write"}) ~> Terminated
    /\ [](Terminated =>
            \/ Raised /\ exitcode = "1" /\ st[cnt] = "FAILED"
            \/ WriteFailed
            \/ Complete)

C13_Witness ==
    /\ Complete
    /\ \E i, j \in 1..Len(manifest) : st[i] = "SAVED" /\ st[j] = "SKIPPED"
    /\ count = retry /\ retry > 0

\* the attempts of the current download_wnid call, by outcome
Failures == Len(SelectSeq(events, LAMBDA x : x \in {"protocol", "transport"}))
Successes == Len(SelectSeq(events, LAMBDA x : x = "ok"))

\* C14: protocol and transport failures count against one budget: in any
\* interleaving the failed attempts of a call are what count has counted, a
\* call makes at most retry + 1 attempts, and DownloadError has been raised
\* exactly when the call's failures number retry + 1, the last event then
\* being that failure, of either kind.
C14_SharedBudget ==
    /\ Failures = count
    /\ Failures + Successes <= retry + 1
    /\ Raised <=> Failures = retry + 1
    /\ Raised => events[Len(events)] \in {"protocol", "transport"}

C14_Witness ==
    /\ Raised /\ retry = 2
    /\ events = <<"protocol", "transport", "sleep", "protocol">>

\* C15: download_wnid writes nothing: while it runs, its identifier has no
\* output file, and each of its steps (a success, a failure followed by a
\* retry, the failure that raises DownloadError) leaves the disk as it is;
\* so when the fetch ends in DownloadError there is no file for the
\* identifier, not even an empty one.
C15_FetcherWritesNothing ==
    [][ pc = "fetch" =>
          /\ disk[wnid] = NoFile
          /\ disk' = disk
          /\ (pc' = "aborted" /\ exc' = "DownloadError") =>
                (disk'[WnidAt(cnt')] = NoFile /\ st'[cnt'] = "FAILED") ]_vars

C15_Witness ==
    /\ Raised /\ st[cnt] = "FAILED"
    /\ disk0[WnidAt(cnt)] = NoFile /\ disk[WnidAt(cnt)] = NoFile
    /\ \E w \in WNIDs : disk0[w] = NoFile /\ disk[w] \in Bodies

\* C16: a blank line, wherever it is, is passed over: reading it changes
\* neither the disk nor the record of network events and leaves get_wnids
\* reading; the lines marked blank are exactly the blank lines read so far,
\* and a run that ends normally has read every line, the identifiers it
\* skipped or saved being, line by line, the stripped non-blank lines.
C16_BlankLinesIgnored ==
    /\ [](\A i \in 1..Len(manifest) :
            /\ st[i] = "BLANK" <=> (i <= cnt /\ WnidAt(i) = <<>>)
            /\ pc = "done" =>
                  /\ cnt = Len(manifest) + 1
                  /\ WnidAt(i) # <<>> =>
                        /\ st[i] \in {"SKIPPED", "SAVED"}
                        /\ disk[WnidAt(i)] # NoFile)
    /\ [][ (pc = "read" /\ readline # <<>> /\ Strip(readline) = <<>>) =>
              /\ pc' = "read" /\ cnt' = cnt + 1
              /\ disk' = disk /\ events' = events /\ wnid' = wnid ]_vars

C16_Witness ==
    /\ pc = "done"
    /\ st = <<"SAVED", "BLANK", "SAVED">>
    /\ WnidAt(1) # WnidAt(3)

\* C17: when an attempt of a download_wnid call has succeeded after k failed
\* ones, of whatever kinds, k is at most retry, the success is the call's
\* last event and its only success (k + 1 attempts, none after it), the call
\* has left the loop without DownloadError, and what it returned is the
\* whole body the server sent.
C17_SuccessEndsCall ==
    Successes > 0 =>
        /\ Successes = 1
        /\ events[Len(events)] = "ok"
        /\ Failures = count /\ count <= retry
        /\ Len(SelectSeq(events, LAMBDA x : x # "sleep")) = count + 1
        /\ pc # "fetch" /\ exc # "DownloadError"
        /\ content = sent /\ sent \in Bodies

C17_Witness ==
    /\ pc = "write" /\ retry = 2
    /\ events = <<"transport", "sleep", "protocol", "ok">>
    /\ content = <<1, 2>>

\* the sleeps and the transport failures of the current download_wnid call
Sleeps == Len(SelectSeq(events, LAMBDA x : x = "sleep"))
Transports == Len(SelectSeq(events, LAMBDA x : x = "transport"))

\* C18: in a download_wnid call, whatever the mix of failures, every sleep
\* comes directly after a transport failure, and a transport failure is
\* followed by a sleep unless it is the failure that raised DownloadError;
\* so the sleeps number the transport failures that another attempt followed,
\* and there is none after a protocol failure or after the last failure of
\* a call that raised.
C18_SleepOnlyAfterTransport ==
    /\ \A i \in 1..Len(events) :
          /\ events[i] = "sleep" => (i > 1 /\ events[i - 1] = "transport")
          /\ events[i] = "transport" =>
                IF i < Len(events) THEN events[i + 1] = "sleep" ELSE Raised
    /\ Raised => events[Len(events)] # "sleep"
    /\ Sleeps = Transports
                - (IF Raised /\ events[Len(events)] = "transport" THEN 1 ELSE 0)

C18_Witness ==
    /\ Raised /\ retry = 2
    /\ events = <<"transport", "sleep", "protocol", "transport">>

\* C19: the budget is the call's own: every download_wnid call starts with
\* count = 0; and a call that follows one in which attempts failed and were
\* retried is still trying while fewer than retry + 1 of its own attempts
\* have failed, and raises DownloadError only with the (retry + 1)-th.
C19_BudgetPerIdentifier ==
    /\ [][ (pc = "read" /\ pc' = "fetch") => count' = 0 ]_vars
    /\ [](prior =>
            /\ Downloading => Failures <= retry
            /\ \A k \in 1..Len(manifest) :
                  st[k] = "FAILED" => (Raised /\ Failures = retry + 1))

C19_Witness ==
    /\ prior /\ Raised /\ retry = 2
    /\ cnt = 2 /\ st[1] = "SAVED" /\ st[2] = "FAILED"
    /\ Failures = 3

-----------------------------------------------------------------------------
(* The URL builder (SpecUrl).                                              *)

\* s.split(c): the fields of s between occurrences of c.
RECURSIVE Split(_, _)
Split(s, c) ==
    LET i == Find(s, {c})
    IN  IF i = 0 THEN <<s>>
        ELSE <<SubSeq(s, 1, i - 1)>> \o Split(Tail2(s, i + 1), c)

\* the non-empty fields of a query string
Pairs(q) == SelectSeq(Split(q, "&"), LAMBDA f : f # <<>>)

\* the key of a field: what precedes its first "="
KeyOf(f) == Partition(f, "=")[1]

\* params_extra as a sequence of items (empty when it is None)
ItemsOf(a) == IF a.params_extra.some THEN a.params_extra.v ELSE <<>>

\* how often field f occurs in the sequence fs
Occurrences(fs, f) == Cardinality({i \in 1..Len(fs) : fs[i] = f})

\* the field a parameter is to be encoded as
FieldOf(item) == quote_plus(item[1]) \o <<"=">> \o quote_plus(PyToStr(item[2]))

\* C8: the result of build_url parses back into the scheme and host of the
\* base URL, and every parameter whose value is not None is in its query
\* string as a percent-encoded key=value pair exactly once.
C8_EveryParamOnce ==
    ret.some =>
        /\ urlparse(ret.v).scheme = urlparse(args.url).scheme
        /\ urlparse(ret.v).netloc = urlparse(args.url).netloc
        /\ \A i \in 1..Len(ItemsOf(args)) :
              ItemsOf(args)[i][2] # PyNone =>
                  Occurrences(Pairs(urlparse(ret.v).query),
                              FieldOf(ItemsOf(args)[i])) = 1

\* C9: when the base URL carries a query string, its key=value pairs are all
\* still there, unchanged, in the result, followed by the new parameters.
C9_ExistingPairsKept ==
    (ret.some /\ urlparse(args.url).query # <<>>) =>
        Pairs(urlparse(ret.v).query)
            = Pairs(urlparse(args.url).query)
              \o [i \in 1..Len(encoded_items(ItemsOf(args))) |->
                    quote_plus(encoded_items(ItemsOf(args))[i][1]) \o <<"=">>
                    \o quote_plus(encoded_items(ItemsOf(args))[i][2])]

\* what build_url put behind the query string of the base URL
Appended(a, r) ==
    SubSeq(urlparse(r).query, Len(urlparse(a.url).query) + 1,
           Len(urlparse(r).query))

\* the keys of the non-empty fields of a query string
KeysOf(q) == {KeyOf(Pairs(q)[j]) : j \in 1..Len(Pairs(q))}

\* the names, as encoded, of the parameters whose value is None
NoneKeys(a) ==
    {quote_plus(ItemsOf(a)[i][1]) :
        i \in {j \in 1..Len(ItemsOf(a)) : ItemsOf(a)[j][2] = PyNone}}

\* C10: no parameter whose value is None is encoded: the result's query
\* string is the base URL's query string followed by key=value fields, none
\* of which has the name of a None-valued parameter as its key.
C10_NoneDropped ==
    ret.some =>
        /\ Len(urlparse(ret.v).query) >= Len(urlparse(args.url).query)
        /\ SubSeq(urlparse(ret.v).query, 1, Len(urlparse(args.url).query))
              = urlparse(args.url).query
        /\ KeysOf(Appended(args, ret.v)) \cap NoneKeys(args) = {}

C10_Witness ==
    /\ ret.some
    /\ Len(ItemsOf(args)) = 2
    /\ ItemsOf(args)[1][2] = PyNone
    /\ ItemsOf(args)[2][2] # PyNone
    /\ Appended(args, ret.v) # <<>>

====
